---- MODULE Spec2Model ----
(***************************************************************************)
(* Family Chores Tracker (phase2_chores_app.py): the assignment,           *)
(* completion and review tables and the operations that write them.        *)
(*                                                                         *)
(* The household of the model has two people (a parent and a child), two   *)
(* chores and two consecutive dates.                                       *)
(* The tables are modelled as the statements of the source use them: rows  *)
(* with an auto-increment id and the columns the statements name.  The     *)
(* source declares no uniqueness or foreign-key rule on any table, so a    *)
(* statement succeeds whenever the storage accepts it and may otherwise    *)
(* raise mysql.connector.Error (the dbError input of each operation),      *)
(* which the function catches and reports as False.                        *)
(***************************************************************************)
EXTENDS Integers, FiniteSets, Sequences, TLC

(* ------------------------------ bounds --------------------------------- *)
MaxAid == 3
MaxCid == 2
MaxRid == 2
MaxOps == 3
MaxCount == 16     \* largest count of a report row
WindowDays == 14   \* a two-week window of dates

(* ------------------------------ catalog -------------------------------- *)
NULL == 0

\* person 1 is a parent, person 2 a child
People == {1, 2}

Role(p) == IF p = 1 THEN "parent" ELSE "child"

Chores == {1, 2}

\* two consecutive calendar days
Dates == {1, 2}

\* a string is the sequence of its characters
DayCodes == << <<"M">>, <<"T">>, <<"W">>, <<"T", "H">>, <<"F">>, <<"S", "A">>, <<"S", "U">> >>

\* date 1 is Monday 2024-01-01
Weekday(d) == ((d - 1) % 7) + 1

MonthLengths == <<31, 29, 31, 30, 31, 30, 31, 31, 30, 31, 30, 31>>

RECURSIVE MonthDay(_, _)
\* the month and the day of month of the d-th day counted from the first of month m
MonthDay(d, m) ==
    IF d <= MonthLengths[m] THEN [month |-> m, day |-> d]
    ELSE MonthDay(d - MonthLengths[m], m + 1)

DayOfMonth(d) == MonthDay(d, 1).day

DaysInMonth(d) == MonthLengths[MonthDay(d, 1).month]

Window == 1..WindowDays

\* (mutant) the selected codes are joined without a separator
RECURSIVE JoinDays_NoComma(_)
JoinDays_NoComma(sel) ==
    IF sel = <<>> THEN <<>> ELSE Head(sel) \o JoinDays_NoComma(Tail(sel))

\* ','.join(days)
RECURSIVE JoinDays(_)
JoinDays(sel) ==
    IF sel = <<>> THEN <<>>
    ELSE IF Len(sel) = 1 THEN Head(sel)
    ELSE Head(sel) \o <<",">> \o JoinDays(Tail(sel))

\* str.split(','): the pieces between the commas
RECURSIVE SplitDays(_)
SplitDays(str) ==
    IF \A i \in 1..Len(str) : str[i] # "," THEN <<str>>
    ELSE LET k == CHOOSE i \in 1..Len(str) : str[i] = "," /\ \A j \in 1..(i - 1) : str[j] # ","
         IN <<SubSeq(str, 1, k - 1)>> \o SplitDays(SubSeq(str, k + 1, Len(str)))

\* the day set read back from the stored string: none when it is empty
StoredDaySet(rule) ==
    IF rule.recurrence_days = <<>> THEN {}
    ELSE {SplitDays(rule.recurrence_days)[i] : i \in 1..Len(SplitDays(rule.recurrence_days))}

\* the anchor day stored with a rule: the UPDATE writes is_recurring,
\* recurrence_type and recurrence_days, and no other column
AnchorDay(rule) == IF "anchor_day" \in DOMAIN rule THEN rule.anchor_day ELSE NULL

NoRule == [is_recurring |-> FALSE, recurrence_type |-> "none", recurrence_days |-> <<>>]

RuleChoices ==
    { NoRule,
      [is_recurring |-> TRUE, recurrence_type |-> "daily", recurrence_days |-> <<>>],
      [is_recurring |-> TRUE, recurrence_type |-> "specific_days",
       recurrence_days |-> JoinDays(<<DayCodes[2]>>)] }

\* the settings the page saves for a recurrence type: the joined selection
\* for specific_days, no recurrence_days for any other type
PageRule(type, sel) ==
    [is_recurring |-> TRUE, recurrence_type |-> type,
     recurrence_days |-> IF type = "specific_days" THEN JoinDays(sel) ELSE <<>>]

\* day selections made in the multiselect, in the order they were picked
DaySelections ==
    { <<>>, <<DayCodes[2]>>, <<DayCodes[4]>>, <<DayCodes[2], DayCodes[4]>>,
      <<DayCodes[4], DayCodes[2]>>, <<DayCodes[6], DayCodes[7]>> }

NotSaved == [saved |-> FALSE, sel |-> <<>>]

VARIABLES
    chores,        \* chores table: chore id -> recurring settings
    assignments,   \* assignments table: set of rows
    completions,   \* completions table: set of rows
    reviews,       \* parental_reviews table: set of rows
    photos,        \* chore_photos directory: the names of the files in it
    days,          \* per chore: the day selection last saved on the setup page
    row,           \* a report row being computed from its counts
    nextAid,       \* auto-increment counters of the three tables
    nextCid,
    nextRid,
    lastOp,        \* the last call made and what it returned
    nOps,          \* number of calls made so far
    sess           \* per user session: the request in progress

vars == <<chores, assignments, completions, reviews, photos, days, row, nextAid, nextCid, nextRid, lastOp, nOps, sess>>

Procs == {1, 2}

IdleSess == [pc |-> "idle", call |-> "none", chore |-> 0, person |-> 0, date |-> 0, due |-> 0,
             existing |-> FALSE, target |-> 0, result |-> "none"]

Op(op, ok, chore, date, person, due, target, existing) ==
    [op |-> op, ok |-> ok, chore |-> chore, date |-> date, person |-> person,
     due |-> due, target |-> target, existing |-> existing, streak |-> 1]

\* the same call with the same arguments
SameCall(a, b) ==
    [a EXCEPT !.streak = 0, !.existing = FALSE] = [b EXCEPT !.streak = 0, !.existing = FALSE]

(* ------------------------------ queries -------------------------------- *)
RowsFor(c, d) == {a \in assignments : a.chore = c /\ a.assigned = d}

RowsOn(d) == {a \in assignments : a.assigned = d}

CompletionsOf(aid) == {k \in completions : k.assignment = aid}

ReviewsOf(cid) == {r \in reviews : r.completion = cid}

\* the completion ids a caller can name: those issued so far and the next one,
\* which does not exist
CompletionIds == {i \in 1..MaxCid : i <= nextCid}

Rank(x, S) == Cardinality({y \in S : y < x})

(* ------------------------- recurrence (procedure) ---------------------- *)
\* due on the anchor day, or on the last day of a month that is shorter
MonthlyDue(anchor, d) ==
    /\ anchor # NULL
    /\ DayOfMonth(d) = (IF anchor > DaysInMonth(d) THEN DaysInMonth(d) ELSE anchor)

IsDue(rule, d) ==
    /\ rule.is_recurring
    /\ CASE rule.recurrence_type = "daily" -> TRUE
         [] rule.recurrence_type = "weekdays" -> Weekday(d) \in 1..5
         [] rule.recurrence_type = "specific_days" -> DayCodes[Weekday(d)] \in StoredDaySet(rule)
         [] rule.recurrence_type = "monthly" -> MonthlyDue(AnchorDay(rule), d)
         [] OTHER -> FALSE

\* the assignee a generated row starts with: the chore's assignee of the day
\* before when there is one, else nobody
DefaultAssignee(c, d) ==
    LET prev == RowsFor(c, d - 1)
    IN IF prev = {} THEN NULL
       ELSE (CHOOSE a \in prev : \A b \in prev : a.id <= b.id).person

\* (mutant) the procedure inserts a row whether or not the pair has one
GenMissing_Always(c, d) == TRUE

\* the chores the procedure creates a row for
GenMissing(c, d) == RowsFor(c, d) = {}

GenChores(d) == {c \in Chores : IsDue(chores[c], d) /\ GenMissing(c, d)}

GenRows(d) ==
    LET S == GenChores(d)
    IN { [id |-> nextAid + Rank(c, S), chore |-> c, person |-> DefaultAssignee(c, d),
          assigned |-> d, due |-> d] : c \in S }

\* (mutant) the procedure resets the assignee and due date of the date's rows
\* of due chores
GenKept_Reset(d) ==
    {IF a.assigned = d /\ IsDue(chores[a.chore], d)
       THEN [a EXCEPT !.person = DefaultAssignee(a.chore, d), !.due = d] ELSE a
       : a \in assignments}

\* the rows that exist already are left as they are
GenKept(d) == assignments

(* ------------------------------ read side ------------------------------- *)
\* (mutant) the rate is cut to one decimal instead of rounded
CompletionRate_Truncated(completed, assigned) == (1000 * completed) \div assigned

\* ROUND(completed * 100.0 / assigned, 1), in tenths of a percent
CompletionRate(completed, assigned) == (2000 * completed + assigned) \div (2 * assigned)

\* COUNT(DISTINCT comp.id) over the rows joined to their completions
CompletedCount(rows) ==
    Cardinality({k \in completions : \E a \in rows : a.id = k.assignment})

\* the columns of a report row, from its two counts
ReportLine(d, assigned, completed) ==
    [date |-> d, assigned |-> assigned, completed |-> completed,
     completion_rate |-> CompletionRate(completed, assigned)]

ReportRow(d, rows) == ReportLine(d, Cardinality(rows), CompletedCount(rows))

\* get_family_report: one row per date that has assignments
FamilyReport ==
    {ReportRow(d, RowsOn(d)) : d \in {e \in Dates : RowsOn(e) # {}}}

\* get_individual_report: one row per date on which the person has assignments
PersonRowsOn(p, d) == {a \in RowsOn(d) : a.person = p}

IndividualReport(p) ==
    {ReportRow(d, PersonRowsOn(p, d)) : d \in {e \in Dates : PersonRowsOn(p, e) # {}}}

\* the completions (or NULL) and reviews (or NULL) a LEFT JOIN pairs a row with
JoinedCompletions(aid) ==
    IF CompletionsOf(aid) = {} THEN {NULL} ELSE {k.id : k \in CompletionsOf(aid)}

JoinedReviews(cid) ==
    IF cid = NULL \/ ReviewsOf(cid) = {} THEN {NULL} ELSE {r.id : r \in ReviewsOf(cid)}

\* get_assignments_for_date
AssignmentsForDate(d) ==
    { [assignment_id |-> a.id, person_id |-> a.person, completion_id |-> cid,
       is_completed |-> (cid # NULL), review_id |-> rid]
        : <<a, cid, rid>> \in
            { t \in RowsOn(d) \X (0..MaxCid) \X (0..MaxRid) :
                 /\ t[1].person \in People
                 /\ t[2] \in JoinedCompletions(t[1].id)
                 /\ t[3] \in JoinedReviews(t[2]) } }

(* ------------------------------- Init ---------------------------------- *)
NoRow == [date |-> 0, assigned |-> 0, completed |-> 0, completion_rate |-> 0, computed |-> FALSE]

\* the database is empty, or holds one assignment made on an earlier visit
Init ==
    /\ chores = [c \in Chores |-> NoRule]
    /\ assignments \in {{}, {[id |-> 1, chore |-> 1, person |-> 2, assigned |-> 1, due |-> 1]}}
    /\ completions = {}
    /\ reviews = {}
    /\ photos = {}
    /\ days = [c \in Chores |-> NotSaved]
    /\ row = NoRow
    /\ nextAid = Cardinality(assignments) + 1
    /\ nextCid = 1
    /\ nextRid = 1
    /\ lastOp = Op("none", TRUE, 0, 0, 0, 0, 0, FALSE)
    /\ nOps = 0
    /\ sess = [p \in Procs |-> IdleSess]

(* ----------------------------- operations ------------------------------ *)
\* one more call is made and its outcome recorded
Called(op) ==
    /\ nOps < MaxOps
    /\ nOps' = nOps + 1
    /\ lastOp' = IF ~op.ok THEN Op(op.op, FALSE, 0, 0, 0, 0, 0, FALSE)
                 ELSE IF SameCall(op, lastOp) THEN [op EXCEPT !.streak = lastOp.streak + 1]
                 ELSE op

\* the UPDATE of update_chore_recurring
UpdateRule(c, rule) == [chores EXCEPT ![c] = rule]

\* update_chore_recurring
UpdateChoreRecurring(c, rule, dbError) ==
    /\ chores' = IF dbError THEN chores ELSE UpdateRule(c, rule)
    /\ Called(Op("recurring", ~dbError, c, 0, 0, 0, 0, FALSE))
    /\ UNCHANGED <<assignments, completions, reviews, photos, days, row, nextAid, nextCid, nextRid, sess>>

\* generate_recurring_assignments
GenerateRecurringAssignments(d, dbError) ==
    /\ nextAid + Cardinality(GenChores(d)) <= MaxAid + 1
    /\ IF dbError
       THEN UNCHANGED <<assignments, nextAid>>
       ELSE /\ assignments' = GenKept(d) \cup GenRows(d)
            /\ nextAid' = nextAid + Cardinality(GenChores(d))
    /\ Called(Op("generate", ~dbError, 0, d, 0, 0, 0, FALSE))
    /\ UNCHANGED <<chores, completions, reviews, photos, days, row, nextCid, nextRid, sess>>

\* (mutant) the SELECT never finds the row
AssignExisting_NeverFound(c, d) == FALSE

\* the SELECT of assign_chore
AssignExisting(c, d) == RowsFor(c, d) # {}

\* (mutant) the UPDATE skips rows that have a completion
AssignUpdate_SkipCompleted(c, p, d, due) ==
    {IF a.chore = c /\ a.assigned = d /\ CompletionsOf(a.id) = {}
       THEN [a EXCEPT !.person = p, !.due = due] ELSE a
       : a \in assignments}

\* the UPDATE of assign_chore
AssignUpdate(c, p, d, due) ==
    {IF a.chore = c /\ a.assigned = d THEN [a EXCEPT !.person = p, !.due = due] ELSE a
       : a \in assignments}

\* the INSERT of assign_chore
AssignInsert(c, p, d, due) ==
    assignments \cup {[id |-> nextAid, chore |-> c, person |-> p, assigned |-> d, due |-> due]}

\* assign_chore from its SELECT's answer on: UPDATE or INSERT, then commit
AssignCommit(c, p, d, due, existing, dbError) ==
    /\ existing \/ dbError \/ nextAid <= MaxAid
    /\ IF dbError
       THEN UNCHANGED <<assignments, nextAid>>
       ELSE IF existing
            THEN /\ assignments' = AssignUpdate(c, p, d, due)
                 /\ UNCHANGED nextAid
            ELSE /\ assignments' = AssignInsert(c, p, d, due)
                 /\ nextAid' = nextAid + 1
    /\ Called(Op("assign", ~dbError, c, d, p, due, 0, existing))
    /\ UNCHANGED <<chores, completions, reviews, photos, days, row, nextCid, nextRid>>

\* assign_chore, run without another session in between
AssignChore(c, p, d, due, dbError) ==
    /\ AssignCommit(c, p, d, due, AssignExisting(c, d), dbError)
    /\ UNCHANGED sess

\* assign_chores_page, "Copy from Yesterday"
CopyRows(d) ==
    LET src == {a.id : a \in RowsOn(d - 1)}
    IN { [id |-> nextAid + Rank(a.id, src), chore |-> a.chore, person |-> a.person,
          assigned |-> d, due |-> d] : a \in RowsOn(d - 1) }

CopyFromYesterday(d, dbError) ==
    /\ dbError \/ nextAid + Cardinality(RowsOn(d - 1)) <= MaxAid + 1
    /\ IF dbError
       THEN UNCHANGED <<assignments, nextAid>>
       ELSE /\ assignments' = (assignments \ RowsOn(d)) \cup CopyRows(d)
            /\ nextAid' = nextAid + Cardinality(RowsOn(d - 1))
    /\ Called(Op("copy", ~dbError, 0, d, 0, 0, 0, FALSE))
    /\ UNCHANGED <<chores, completions, reviews, photos, days, row, nextCid, nextRid, sess>>

\* assign_chores_page, "Clear All"
ClearAll(d, dbError) ==
    /\ assignments' = IF dbError THEN assignments ELSE assignments \ RowsOn(d)
    /\ Called(Op("clear", ~dbError, 0, d, 0, 0, 0, FALSE))
    /\ UNCHANGED <<chores, completions, reviews, photos, days, row, nextAid, nextCid, nextRid, sess>>

\* the name the photo is saved under: the time of the call and the upload's
\* name, a name no file has yet; or None without a photo
SavedFilename(photo) == IF photo THEN Cardinality(photos) + 1 ELSE NULL

\* the photo is written to the directory before the INSERT is run
WritePhoto(photo) == IF photo THEN photos \cup {SavedFilename(photo)} ELSE photos

\* the INSERT of mark_chore_complete
InsertCompletion(aid, photo) ==
    completions \cup {[id |-> nextCid, assignment |-> aid, photo_filename |-> SavedFilename(photo)]}

\* mark_chore_complete: the photo file, the INSERT, then commit; dbError is an
\* Error raised by the INSERT or the commit (a connection that cannot be opened
\* is the failed call without a photo)
CompleteCommit(aid, photo, dbError) ==
    /\ dbError \/ nextCid <= MaxCid
    /\ photos' = WritePhoto(photo)
    /\ IF dbError
       THEN UNCHANGED <<completions, nextCid>>
       ELSE /\ completions' = InsertCompletion(aid, photo)
            /\ nextCid' = nextCid + 1
    /\ Called(Op("complete", ~dbError, 0, 0, 0, 0, aid, FALSE))
    /\ UNCHANGED <<chores, assignments, reviews, days, row, nextAid, nextRid>>

\* mark_chore_complete
MarkChoreComplete(aid, photo, dbError) ==
    /\ CompleteCommit(aid, photo, dbError)
    /\ UNCHANGED sess

\* the INSERT of add_parental_review
InsertReview(cid, reviewer, approved) ==
    reviews \cup {[id |-> nextRid, completion |-> cid, reviewer |-> reviewer, approved |-> approved]}

\* add_parental_review
AddParentalReview(cid, reviewer, approved, dbError) ==
    /\ dbError \/ nextRid <= MaxRid
    /\ IF dbError
       THEN UNCHANGED <<reviews, nextRid>>
       ELSE /\ reviews' = InsertReview(cid, reviewer, approved)
            /\ nextRid' = nextRid + 1
    /\ Called(Op("review", ~dbError, 0, 0, reviewer, 0, cid, FALSE))
    /\ UNCHANGED <<chores, assignments, completions, photos, days, row, nextAid, nextCid, sess>>

Next ==
    \/ \E c \in Chores, rule \in RuleChoices, e \in BOOLEAN : UpdateChoreRecurring(c, rule, e)
    \/ \E d \in Dates, e \in BOOLEAN : GenerateRecurringAssignments(d, e)
    \/ \E c \in Chores, p \in People, d \in Dates, due \in Dates, e \in BOOLEAN :
          AssignChore(c, p, d, due, e)
    \/ \E d \in Dates, e \in BOOLEAN : CopyFromYesterday(d, e)
    \/ \E d \in Dates, e \in BOOLEAN : ClearAll(d, e)
    \/ \E aid \in 1..(nextAid - 1), e \in BOOLEAN : MarkChoreComplete(aid, FALSE, e)
    \/ \E cid \in CompletionIds, r \in People, ap \in BOOLEAN, e \in BOOLEAN :
          AddParentalReview(cid, r, ap, e)

Spec == Init /\ [][Next]_vars

(* ------------------- two sessions, statement by statement --------------- *)
Result(dbError) == IF dbError THEN "error" ELSE "ok"

\* a session may start a call while fewer than MaxOps calls are made or under way
MayStart(s) ==
    /\ sess[s].pc = "idle"
    /\ nOps + Cardinality({t \in Procs : sess[t].pc # "idle"}) < MaxOps

\* assign_chore up to the SELECT's answer
AssignSelect(s, c, p, d, due) ==
    /\ MayStart(s)
    /\ sess' = [sess EXCEPT ![s] = [pc |-> "assign_write", call |-> "assign", chore |-> c,
                                    person |-> p, date |-> d, due |-> due,
                                    existing |-> AssignExisting(c, d), target |-> 0,
                                    result |-> "none"]]
    /\ UNCHANGED <<chores, assignments, completions, reviews, photos, days, row, nextAid, nextCid,
                   nextRid, lastOp, nOps>>

\* assign_chore from the SELECT's answer to the commit
AssignWrite(s, dbError) ==
    /\ sess[s].pc = "assign_write"
    /\ AssignCommit(sess[s].chore, sess[s].person, sess[s].date, sess[s].due,
                    sess[s].existing, dbError)
    /\ sess' = [sess EXCEPT ![s] = [IdleSess EXCEPT !.call = "assign",
                                                    !.result = Result(dbError)]]

\* complete_chores_page shows the completion form of a row that is not completed
CompleteForm(s, aid) ==
    /\ MayStart(s)
    /\ \E a \in assignments : a.id = aid /\ a.person \in People
    /\ CompletionsOf(aid) = {}
    /\ sess' = [sess EXCEPT ![s] = [IdleSess EXCEPT !.pc = "complete_form",
                                                    !.call = "complete", !.target = aid]]
    /\ UNCHANGED <<chores, assignments, completions, reviews, photos, days, row, nextAid, nextCid,
                   nextRid, lastOp, nOps>>

\* the form is submitted: mark_chore_complete
CompleteSubmit(s, photo, dbError) ==
    /\ sess[s].pc = "complete_form"
    /\ CompleteCommit(sess[s].target, photo, dbError)
    /\ sess' = [sess EXCEPT ![s].pc = "idle", ![s].result = Result(dbError)]

NextConc ==
    \/ \E s \in Procs, c \in Chores, p \in People, d \in Dates, due \in Dates :
          AssignSelect(s, c, p, d, due)
    \/ \E s \in Procs, e \in BOOLEAN : AssignWrite(s, e)
    \/ \E s \in Procs, aid \in 1..(nextAid - 1) : CompleteForm(s, aid)
    \/ \E s \in Procs, ph \in BOOLEAN, e \in BOOLEAN : CompleteSubmit(s, ph, e)

SpecConc == Init /\ [][NextConc]_vars

(* ------------------------ completions with photos ---------------------- *)
\* the calls of the assign page and of the completion form, a photo uploaded
\* or not
NextPhoto ==
    \/ \E c \in Chores, p \in People, d \in Dates, due \in Dates, e \in BOOLEAN :
          AssignChore(c, p, d, due, e)
    \/ \E d \in Dates, e \in BOOLEAN : CopyFromYesterday(d, e)
    \/ \E aid \in 1..(nextAid - 1), ph \in BOOLEAN, e \in BOOLEAN : MarkChoreComplete(aid, ph, e)

SpecPhoto == Init /\ [][NextPhoto]_vars

(* --------------------- the rate of a report row ------------------------- *)
\* a row groups the assignments of a date, so it counts at least one; the
\* completions joined to them are counted apart
InitRate ==
    /\ chores = [c \in Chores |-> NoRule]
    /\ assignments = {}
    /\ completions = {}
    /\ reviews = {}
    /\ photos = {}
    /\ days = [c \in Chores |-> NotSaved]
    /\ row \in { [NoRow EXCEPT !.date = 1, !.assigned = a, !.completed = k]
                   : a \in 1..MaxCount, k \in 0..MaxCount }
    /\ nextAid = 1
    /\ nextCid = 1
    /\ nextRid = 1
    /\ lastOp = Op("none", TRUE, 0, 0, 0, 0, 0, FALSE)
    /\ nOps = 0
    /\ sess = [p \in Procs |-> IdleSess]

\* the SELECT computes the row's columns
ComputeRate ==
    /\ ~row.computed
    /\ row' = [row EXCEPT !.completion_rate =
                              ReportLine(row.date, row.assigned, row.completed).completion_rate,
                          !.computed = TRUE]
    /\ UNCHANGED <<chores, assignments, completions, reviews, photos, days, nextAid,
                   nextCid, nextRid, lastOp, nOps, sess>>

NextRate == ComputeRate

SpecRate == InitRate /\ [][NextRate]_vars

(* ------------------ specific days, over a two-week window --------------- *)
\* recurring_setup_page, "Save Settings"; the multiselect is shown for
\* specific_days only
SaveSettings(c, type, sel, dbError) ==
    /\ type = "specific_days" \/ sel = <<>>
    /\ chores' = IF dbError THEN chores ELSE UpdateRule(c, PageRule(type, sel))
    /\ days' = IF dbError THEN days ELSE [days EXCEPT ![c] = [saved |-> TRUE, sel |-> sel]]
    /\ Called(Op("recurring", ~dbError, c, 0, 0, 0, 0, FALSE))
    /\ UNCHANGED <<assignments, completions, reviews, photos, row, nextAid, nextCid, nextRid, sess>>

NextDays ==
    \/ \E c \in Chores, type \in {"monthly", "specific_days"}, sel \in DaySelections,
          e \in BOOLEAN : SaveSettings(c, type, sel, e)
    \/ \E d \in Window, e \in BOOLEAN : GenerateRecurringAssignments(d, e)

SpecDays == Init /\ [][NextDays]_vars
(* ============================== properties ============================== *)
\* the step is a successful assign call for the pair (c, d)
AssignStepOn(c, d) ==
    lastOp'.op = "assign" /\ lastOp'.ok /\ lastOp'.chore = c /\ lastOp'.date = d

SamePair(a, b) == a.chore = b.chore /\ a.assigned = b.assigned

\* C1: after any sequence of generate, assign, copy and clear calls there is at
\* most one assignment per (chore, assigned date), and after a successful assign
\* the pair's one assignment carries the call's person and due date.
C1_UniqueAssignment ==
    /\ \A a, b \in assignments : SamePair(a, b) => a = b
    /\ (lastOp.op = "assign" /\ lastOp.ok) =>
          \E a \in assignments : /\ a.chore = lastOp.chore /\ a.assigned = lastOp.date
                                 /\ a.person = lastOp.person /\ a.due = lastOp.due

\* an assign call found the pair's row and updated it: the table still holds
\* the one row ever inserted
C1_Witness ==
    /\ lastOp.op = "assign" /\ lastOp.ok /\ lastOp.existing
    /\ nextAid = 2
    /\ \E a \in assignments : /\ a.id = 1 /\ a.chore = lastOp.chore /\ a.assigned = lastOp.date
                              /\ a.person = lastOp.person /\ a.due = lastOp.due

\* C2: a complete call on an assignment that already has a completion does not
\* succeed and adds no completion.
C2_AlreadyCompleted ==
    [][~(lastOp'.op = "complete" /\ lastOp'.ok /\ CompletionsOf(lastOp'.target) # {})]_vars

\* C3: a review call on a completion that exists and already has a review does
\* not succeed and adds no review.
C3_AlreadyReviewed ==
    [][~(/\ lastOp'.op = "review" /\ lastOp'.ok
         /\ \E k \in completions : k.id = lastOp'.target
         /\ ReviewsOf(lastOp'.target) # {})]_vars

\* C4: the reviewer of every stored review of a completion holds the parent
\* role.
C4_ReviewerIsParent ==
    \A r \in reviews :
        (\E k \in completions : k.id = r.completion) => Role(r.reviewer) = "parent"

\* C5: no step removes a completion, the assignment it belongs to, or a review.
C5_AppendOnly ==
    [][/\ \A k \in completions :
             /\ k \in completions'
             /\ (\E a \in assignments : a.id = k.assignment)
                   => (\E a \in assignments' : a.id = k.assignment)
       /\ \A r \in reviews : r \in reviews']_vars

C7_OneCompletionWins ==
    \A s, t \in Procs :
        (/\ s # t
         /\ sess[s].call = "complete" /\ sess[s].result # "none"
         /\ sess[t].call = "complete" /\ sess[t].result # "none"
         /\ sess[s].target = sess[t].target)
        => /\ ~(sess[s].result = "ok" /\ sess[t].result = "ok")
           /\ Cardinality(CompletionsOf(sess[s].target)) <= 1

\* C8: whenever no assign call is between its SELECT and its write, every
\* (chore, assigned date) pair has at most one assignment.
C8_AtomicUpsert ==
    (\A s \in Procs : sess[s].pc # "assign_write")
       => \A a, b \in assignments : SamePair(a, b) => a.id = b.id

\* C9: every review refers to an existing completion.
C9_ReviewNeedsCompletion ==
    \A r \in reviews : \E k \in completions : k.id = r.completion

\* C10: a successful generate(d) that directly follows a successful generate(d)
\* leaves the assignments exactly as the first one left them.
C10_GenerateIdempotent ==
    [][(lastOp'.op = "generate" /\ lastOp'.ok /\ lastOp'.streak >= 2)
          => assignments' = assignments]_vars

\* generate(d) has run twice in a row and the date has a generated assignment
C10_Witness ==
    /\ lastOp.op = "generate" /\ lastOp.ok /\ lastOp.streak >= 2
    /\ \E a \in RowsOn(lastOp.date) : a.person = NULL
\* C11: a successful generate(d) keeps every assignment as it was, and every
\* assignment it adds is for date d and a chore that is due on d and had none.
C11_GenerateKeepsExisting ==
    [][(lastOp'.op = "generate" /\ lastOp'.ok)
          => /\ assignments \subseteq assignments'
             /\ \A a \in assignments' \ assignments :
                   /\ a.assigned = lastOp'.date
                   /\ IsDue(chores[a.chore], a.assigned)
                   /\ RowsFor(a.chore, a.assigned) = {}]_vars

\* generate has just run on a date where a due chore already had an
\* assignment with a person, and it created another chore's assignment
C11_Witness ==
    /\ lastOp.op = "generate" /\ lastOp.ok
    /\ \E a, b \in RowsOn(lastOp.date) :
          /\ a.person \in People /\ IsDue(chores[a.chore], lastOp.date)
          /\ b.person = NULL /\ b.id = nextAid - 1 /\ a.id < b.id

\* C12: every stored assignment has due date >= assigned date.
C12_DueNotBeforeAssigned == \A a \in assignments : a.due >= a.assigned

\* C17: a successful assign that directly repeats a successful assign with the
\* same arguments changes nothing: the pair keeps its one assignment with that
\* person and due date.
C17_AssignRetry ==
    [][(lastOp'.op = "assign" /\ lastOp'.ok /\ lastOp'.streak >= 2)
          => /\ assignments' = assignments
             /\ nextAid' = nextAid
             /\ \E a \in assignments' :
                   /\ a.chore = lastOp'.chore /\ a.assigned = lastOp'.date
                   /\ a.person = lastOp'.person /\ a.due = lastOp'.due]_vars

\* the same assign call has succeeded twice in a row
C17_Witness ==
    /\ lastOp.op = "assign" /\ lastOp.ok /\ lastOp.streak >= 2 /\ lastOp.existing
    /\ RowsFor(lastOp.chore, lastOp.date) # {}

\* C18: every row of the family report and of each individual report has
\* completed <= assigned and a completion rate of at most 100 percent.
C18_CompletedAtMostAssigned ==
    \A r \in FamilyReport \cup UNION {IndividualReport(p) : p \in People} :
        r.completed <= r.assigned /\ r.completion_rate <= 1000

\* C19: assignments_for_date(d) has exactly one row for each stored assignment
\* of date d that has an assignee.
C19_OneRowPerAssignment ==
    \A d \in Dates : \A a \in RowsOn(d) :
        a.person \in People
           => Cardinality({r \in AssignmentsForDate(d) : r.assignment_id = a.id}) = 1

\* C13: a call that fails leaves no part of its change behind: a failed
\* complete call leaves the completions and the stored photos as they were,
\* and a failed Copy from Yesterday leaves the assignments as they were
C13_NoPartialState ==
    [][ /\ (nOps' = nOps + 1 /\ lastOp'.op = "complete" /\ ~lastOp'.ok)
            => (completions' = completions /\ photos' = photos)
        /\ (nOps' = nOps + 1 /\ lastOp'.op = "copy" /\ ~lastOp'.ok)
            => assignments' = assignments ]_vars

\* C14: the completion_rate of a report row is 0 when the row's assigned count
\* is 0, and else 100 * completed / assigned rounded to one decimal (here in
\* tenths of a percent: the nearest whole number of tenths)
C14_RateRounded ==
    row.computed =>
        IF row.assigned = 0 THEN row.completion_rate = 0
        ELSE /\ 2 * (row.completion_rate * row.assigned - 1000 * row.completed) <= row.assigned
             /\ 2 * (1000 * row.completed - row.completion_rate * row.assigned) <= row.assigned

\* two of three done: 66.7
C14_Witness ==
    row.computed /\ row.assigned = 3 /\ row.completed = 2 /\ row.completion_rate = 667

\* C15: a monthly rule is due on a date iff the day of month is the rule's
\* stored anchor day, or the anchor day is past the end of the month and the
\* date is the month's last day
C15_MonthlyAnchor ==
    \A c \in Chores :
        (chores[c].is_recurring /\ chores[c].recurrence_type = "monthly") =>
            /\ AnchorDay(chores[c]) \in 1..31
            /\ \A d \in Window :
                  IsDue(chores[c], d) <=>
                      \/ DayOfMonth(d) = AnchorDay(chores[c])
                      \/ /\ AnchorDay(chores[c]) > DaysInMonth(d)
                         /\ DayOfMonth(d) = DaysInMonth(d)

\* C16: a specific_days rule is due on a date iff the date's weekday code is
\* in the day set saved with the rule, and generating for a date of the
\* two-week window adds a row for the chore exactly when it is due and has
\* none; with Tuesday and Thursday saved that is the Tuesdays and Thursdays,
\* with nothing saved it is never
C16_SpecificDays ==
    [][ /\ \A c \in Chores : (days'[c].saved /\ chores'[c].recurrence_type = "specific_days") =>
              \A d \in Window :
                  IsDue(chores'[c], d) <=>
                      \E i \in 1..Len(days'[c].sel) : days'[c].sel[i] = DayCodes[Weekday(d)]
        /\ (nOps' = nOps + 1 /\ lastOp'.op = "generate" /\ lastOp'.ok) =>
              \A c \in Chores : (days[c].saved /\ chores[c].recurrence_type = "specific_days") =>
                  ( (\E a \in assignments' \ assignments : a.chore = c /\ a.assigned = lastOp'.date)
                    <=> /\ RowsFor(c, lastOp'.date) = {}
                        /\ \E i \in 1..Len(days[c].sel) :
                               days[c].sel[i] = DayCodes[Weekday(lastOp'.date)] ) ]_vars

\* Tuesday and Thursday are saved and a row was generated on the second Thursday
C16_Witness ==
    /\ days[1] = [saved |-> TRUE, sel |-> <<DayCodes[2], DayCodes[4]>>]
    /\ lastOp.op = "generate" /\ lastOp.ok /\ lastOp.date = 11
    /\ \E a \in assignments : a.chore = 1 /\ a.assigned = 11

====
